---- MODULE Spec2Model ----
(***************************************************************************)
(* VeghJS worker ("The Thread"), src/worker.js: the message protocol       *)
(* between a page and the worker that runs the Vegh snapshot core (WASM).  *)
(*                                                                         *)
(* The worker is one JavaScript event loop.  A handler runs without        *)
(* interruption up to its next await; the actions below are those          *)
(* run-to-suspension steps.  The core (pkg/vegh_js.js: VeghStreamingHasher,*)
(* get_metadata, list_files, check_cache_hit, get_file_content) is not     *)
(* part of the sources; it is modelled from its specification.             *)
(***************************************************************************)
EXTENDS Integers, Sequences, FiniteSets, TLC

\* ------------------------------------------------------------------ bounds
MaxRequests == 2
MaxFileLen == 2
MaxEmptyChunks == 1

\* ------------------------------------------------------------ JS values
Undefined == [t |-> "undefined", v |-> 0]
Num(n) == [t |-> "number", v |-> n]

\* BigInt(x), worker.js:46: an integer converts to the same integer,
\* undefined throws a TypeError.
BigInt(x) == [ok |-> x.t = "number", v |-> x.v]

\* 5 * 1024 * 1024, the default of handleIntegrityStream's chunkSize
DefaultChunkSize == 5242880

\* A thrown JavaScript value: an Error object (name, message) or a string.
ErrorObj(name, message) == [form |-> "Error", name |-> name, message |-> message]
NoErr == [form |-> "none", name |-> "", message |-> ""]

\* faulty variant: the thrown value is rendered as an opaque object
StringOfObject(err) == "[object Object]"

\* String(err): Error.prototype.toString, or the string itself.
StringOf(err) ==
    IF err.form = "Error"
    THEN IF err.message = "" THEN err.name
         ELSE IF err.name = "" THEN err.message
         ELSE err.name \o ": " \o err.message
    ELSE err.message

\* faulty variant: every failure is reported with one generic text
ErrTextGeneric(err) == "Operation failed"

\* err.message || String(err), worker.js:60.  A thrown string has no
\* message property.
ErrText(err) ==
    IF err.form = "Error" /\ err.message # "" THEN err.message ELSE StringOf(err)

TypeError(what) == ErrorObj("TypeError", what)
\* A Blob read that fails rejects with a NotReadableError DOMException.
NotReadable == ErrorObj("NotReadableError", "The requested file could not be read")

\* ------------------------------------------------------------------ files
\* payload.file: missing, an object that is no Blob (no size, stream or
\* arrayBuffer), or a Blob/File with its bytes.
NoFile == [kind |-> "undefined", bytes |-> << >>]
NotBlob == [kind |-> "object", bytes |-> << >>]
Blob(bytes) == [kind |-> "blob", bytes |-> bytes]

\* every byte sequence of length at most n over the byte values 1 and 2
RECURSIVE SeqsUpTo(_)
SeqsUpTo(n) ==
    IF n = 0 THEN {<< >>}
    ELSE LET S == SeqsUpTo(n - 1)
         IN  S \cup {Append(s, b) : s \in {x \in S : Len(x) = n - 1}, b \in {1, 2}}

\* Snapshot containers: the first byte is the format version (1 and 2 are
\* implemented, 99 is well formed but not implemented), each further byte
\* is one frame of the body holding one entry and naming its path (0: a
\* frame compressed with an algorithm that is not implemented).
Containers == {<< >>, <<99>>, <<1, 0>>, <<1>>, <<2, 1>>}

Files == {NoFile, NotBlob} \cup {Blob(c) : c \in Containers}

Paths == {"x.txt", "y.txt"}
PathName(b) == IF b = 1 THEN "x.txt" ELSE "y.txt"

\* ------------------------------------------------- the core (from the spec)
Ok(v) == [ok |-> TRUE, val |-> v, kind |-> ""]
Fail(kind) == [ok |-> FALSE, val |-> 0, kind |-> kind]

\* A core failure reaches JavaScript as a thrown value whose text names its
\* kind.
CoreError(kind) == [form |-> "string", name |-> "", message |-> kind]

CoreKinds ==
    {"CorruptContainer", "UnsupportedCompression", "UnsupportedFormatVersion",
     "EntryNotFound", "InvalidUsage"}

\* Streaming Integrity Hasher: create, update, finalize.
HashInit == 7
HashStep(h, b) == (h * 31 + b + 1) % 251

RECURSIVE HashUpdate(_, _)
HashUpdate(h, chunk) ==
    IF chunk = << >> THEN h ELSE HashUpdate(HashStep(h, Head(chunk)), Tail(chunk))

\* hashing a whole buffer in one call
HashOneShot(B) == HashUpdate(HashInit, B)

NoHasher == [status |-> "none", h |-> 0]
NewHasher == [status |-> "live", h |-> HashInit]

\* Format Version Policy: versions 1 and 2 are implemented.
VersionOk(v) == v \in {1, 2}

\* Compressed Container Codec: the frames it can decompress.
FrameOk(b) == b \in {1, 2}

\* Metadata Reader: reads the header only.
get_metadata(bytes) ==
    IF Len(bytes) = 0 THEN Fail("CorruptContainer")
    ELSE IF ~VersionOk(bytes[1]) THEN Fail("UnsupportedFormatVersion")
    ELSE Ok([author |-> "", comment |-> "", format_version |-> bytes[1]])

Body(bytes) == Tail(bytes)

\* Archive Directory Model: the entries in archive order.
list_files(bytes) ==
    IF Len(bytes) = 0 THEN Fail("CorruptContainer")
    ELSE IF ~VersionOk(bytes[1]) THEN Fail("UnsupportedFormatVersion")
    ELSE IF \E i \in 1..Len(Body(bytes)) : ~FrameOk(Body(bytes)[i])
         THEN Fail("UnsupportedCompression")
    ELSE IF \E i, j \in 1..Len(Body(bytes)) : i # j /\ Body(bytes)[i] = Body(bytes)[j]
         THEN Fail("CorruptContainer")
    ELSE Ok([i \in 1..Len(Body(bytes)) |-> [path |-> PathName(Body(bytes)[i]), size |-> 0]])

get_file_content(bytes, targetPath) ==
    LET l == list_files(bytes)
    IN  IF ~l.ok THEN l
        ELSE IF \A i \in 1..Len(l.val) : l.val[i].path # targetPath
             THEN Fail("EntryNotFound")
        ELSE Ok(<< >>)

\* VeghCache: files is a mapping from path to FileCacheEntry.
NoCache == [defined |-> FALSE, files |-> << >>]
Cache(files) == [defined |-> TRUE, files |-> files]
CacheEntry(size, modifiedTime, digest) ==
    [size |-> size, modifiedTime |-> modifiedTime, digest |-> digest]

\* Cache Index & Matcher: a pure attribute comparison.
check_cache_hit(cache, path, size, modified) ==
    IF ~cache.defined THEN Fail("InvalidUsage")
    ELSE Ok(/\ path \in DOMAIN cache.files
            /\ cache.files[path].size = size
            /\ cache.files[path].modifiedTime = modified)

\* --------------------------------------------------------------- requests
Commands ==
    {"CHECK_INTEGRITY_STREAM", "GET_METADATA", "LIST_FILES", "CHECK_CACHE",
     "GET_FILE_CONTENT"}

NoPayload ==
    [present |-> FALSE, file |-> NoFile, chunkSize |-> Undefined, cacheObj |-> NoCache,
     path |-> "", size |-> Undefined, modified |-> Undefined]

FilePayload(file, chunkSize, path) ==
    [NoPayload EXCEPT !.present = TRUE, !.file = file, !.chunkSize = chunkSize,
                      !.path = path]

CachePayload(cacheObj, path, size, modified) ==
    [NoPayload EXCEPT !.present = TRUE, !.cacheObj = cacheObj, !.path = path,
                      !.size = size, !.modified = modified]

\* e.data: null or undefined, or a value with (possibly undefined) command
\* and payload properties.
NullData == [nullish |-> TRUE, command |-> "", payload |-> NoPayload]
Data(command, payload) == [nullish |-> FALSE, command |-> command, payload |-> payload]

\* the cache of the documented scenario, and queries made against it
ScenarioCache == Cache("x.txt" :> CacheEntry(100, 5000, "D"))

ScenarioQueries ==
    {CachePayload(ScenarioCache, "x.txt", Num(100), Num(5000)),
     CachePayload(ScenarioCache, "x.txt", Num(101), Num(5000)),
     CachePayload(ScenarioCache, "y.txt", Num(100), Num(5000)),
     CachePayload(NoCache, "x.txt", Num(100), Num(5000)),
     CachePayload(ScenarioCache, "x.txt", Undefined, Num(5000))}

\* the messages of the protocol: every command, every payload shape
Requests ==
    {NullData, Data("BOGUS", NoPayload)}
    \cup {Data(c, NoPayload) : c \in Commands}
    \cup {Data(c, FilePayload(f, Undefined, "x.txt")) :
            c \in Commands \ {"CHECK_CACHE"}, f \in Files}
    \cup {Data("CHECK_CACHE", q) : q \in ScenarioQueries}

\* streaming requests: every file of at most MaxFileLen bytes, asked to be
\* hashed in chunks of 1 byte
StreamRequests ==
    {Data("CHECK_INTEGRITY_STREAM", FilePayload(Blob(b), Num(1), "")) :
        b \in SeqsUpTo(MaxFileLen)}

\* cache queries: every cache that records at most the path x.txt, every
\* observed path, size and modification time
Sizes == {100, 101}
Times == {5000, 5001}
Digests == {"D", "E"}
Caches ==
    {NoCache, Cache(<< >>)}
    \cup {Cache("x.txt" :> CacheEntry(s, t, g)) : s \in Sizes, t \in Times, g \in Digests}

CacheRequests ==
    {Data("CHECK_CACHE", CachePayload(c, p, Num(s), Num(t))) :
        c \in Caches, p \in Paths, s \in Sizes, t \in Times}

\* ------------------------------------------------------------------ state
VARIABLES
    initState,  \* the init IIFE: "pending", "ok" or "failed"
    isReady,    \* worker.js:6
    reqs,       \* the messages delivered to onmessage, in order of delivery,
                \* each with the state of its handler
    out         \* the messages posted by the worker, in order

vars == <<initState, isReady, reqs, out>>

Msg(type, payload, req) == [type |-> type, payload |-> payload, req |-> req]

\* the state of one onmessage invocation and of the handler it awaits
NewReq(d) ==
    [data |-> d,
     ready |-> isReady,       \* isReady when the message was delivered
     pc |-> "start",          \* "awaitRead", "awaitBuffer", "rejected", "done", "crashed"
     err |-> NoErr,           \* the exception being propagated
     raised |-> "",           \* kind of the failure raised by the core, if any
     totalBytes |-> 0,
     loadedBytes |-> 0,
     pos |-> 0,               \* bytes the reader has delivered
     emptyReads |-> 0,
     chunkSize |-> 0,         \* the parameter chunkSize of handleIntegrityStream
     hasherVar |-> FALSE,     \* the local variable hasher is non-null
     hasher |-> NoHasher,
     chunks |-> << >>,        \* the arguments of hasher.update, in call order
     ops |-> << >>]           \* the core functions invoked, in call order

CoreCall(fn) == [fn |-> fn, ready |-> isReady, init |-> initState]

TerminalTypes ==
    {"RESULT_INTEGRITY", "RESULT_METADATA", "RESULT_FILES", "RESULT_CACHE_HIT",
     "RESULT_FILE_CONTENT", "ERROR"}

Init ==
    /\ initState = "pending"
    /\ isReady = FALSE
    /\ reqs = << >>
    /\ out = << >>

\* No continuation of an await is queued.  The continuation that runs the
\* catch of onmessage for a rejected handler is a microtask: it runs before
\* the event loop takes its next task (a message event, the settling of a
\* read or of init).
Idle == \A r \in 1..Len(reqs) : reqs[r].pc # "rejected"

\* worker.js:10-12: init() resolved
InitSucceeds ==
    /\ Idle
    /\ initState = "pending"
    /\ initState' = "ok"
    /\ isReady' = TRUE
    /\ out' = Append(out, Msg("READY", "", 0))
    /\ UNCHANGED reqs

\* faulty variant: the worker is marked ready although init() rejected
InitFailsReady ==
    /\ Idle
    /\ initState = "pending"
    /\ initState' = "failed"
    /\ isReady' = TRUE
    /\ out' = Append(out, Msg("ERROR", "WASM Init Failed: " \o "LinkError", 0))
    /\ UNCHANGED reqs

\* worker.js:13-15: init() rejected
InitFails ==
    /\ Idle
    /\ initState = "pending"
    /\ initState' = "failed"
    /\ out' = Append(out, Msg("ERROR", "WASM Init Failed: " \o "LinkError", 0))
    /\ UNCHANGED <<isReady, reqs>>

\* ------------------------------------------------------------- onmessage
\* an outcome of one run-to-suspension step: the handler's state and the
\* messages it posted
Step(q, msgs) == [req |-> q, msgs |-> msgs]

\* faulty variant: after an ERROR the worker refuses every request
NotReadyAfterError ==
    ~isReady \/ \E i \in 1..Len(out) : out[i].type = "ERROR" /\ out[i].req > 0

\* faulty variant: the readiness check is missing
NotReadyUnchecked == FALSE

\* worker.js:20
NotReady == ~isReady

\* faulty variant: the catch swallows a synchronous exception
CaughtSilent(q, err, i) == [req |-> [q EXCEPT !.pc = "done", !.err = err], msgs |-> << >>]

\* worker.js:59-61: an exception thrown synchronously inside the try
Caught(q, err, i) ==
    Step([q EXCEPT !.pc = "done", !.err = err], <<Msg("ERROR", ErrText(err), i)>>)

\* an async handler threw: its promise is rejected, and the catch of
\* onmessage runs when the await resumes
Rejected(q, err) == Step([q EXCEPT !.pc = "rejected", !.err = err], << >>)

\* faulty variant: the text does not name the command
UnknownCommandGeneric(command) == "Unknown command"

\* worker.js:57: the text of the ERROR of the default case
UnknownCommand(command) == "Unknown command: " \o command

\* worker.js:64: the default value of the parameter
ChunkSizeParam(cs) == IF cs.t = "undefined" THEN DefaultChunkSize ELSE cs.v

\* worker.js:64-73: handleIntegrityStream up to its first await
StartIntegrityStream(q, file, cs) ==
    IF file.kind = "undefined"
    THEN Rejected(q, TypeError("Cannot read properties of undefined (reading 'size')"))
    ELSE LET h == [q EXCEPT !.chunkSize = ChunkSizeParam(cs),
                            !.hasherVar = TRUE,
                            !.hasher = NewHasher,
                            !.ops = Append(@, CoreCall("VeghStreamingHasher"))]
         IN  IF file.kind = "object"
             THEN Rejected(h, TypeError("file.stream is not a function"))
             ELSE Step([h EXCEPT !.totalBytes = Len(file.bytes), !.pc = "awaitRead"], << >>)

\* worker.js:96, 102, 109: handleMetadata, handleListFiles and
\* handleGetFileContent up to their await
StartBufferRead(q, file) ==
    IF file.kind = "undefined"
    THEN Rejected(q, TypeError("Cannot read properties of undefined (reading 'arrayBuffer')"))
    ELSE IF file.kind = "object"
    THEN Rejected(q, TypeError("file.arrayBuffer is not a function"))
    ELSE Step([q EXCEPT !.pc = "awaitBuffer"], << >>)

\* faulty variant: size and modified change places
CheckCacheArgsSwapped(payload) ==
    <<payload.cacheObj, payload.path, BigInt(payload.modified).v, BigInt(payload.size).v>>

\* worker.js:46: the arguments passed to check_cache_hit
CheckCacheArgs(payload) ==
    <<payload.cacheObj, payload.path, BigInt(payload.size).v, BigInt(payload.modified).v>>

\* worker.js:44-48
CheckCache(q, payload, i) ==
    IF ~BigInt(payload.size).ok \/ ~BigInt(payload.modified).ok
    THEN Caught(q, TypeError("Cannot convert undefined to a BigInt"), i)
    ELSE LET a == CheckCacheArgs(payload)
             isHit == check_cache_hit(a[1], a[2], a[3], a[4])
             c == [q EXCEPT !.ops = Append(@, CoreCall("check_cache_hit"))]
         IN  IF isHit.ok
             THEN Step([c EXCEPT !.pc = "done"], <<Msg("RESULT_CACHE_HIT", isHit.val, i)>>)
             ELSE Caught([c EXCEPT !.raised = isHit.kind], CoreError(isHit.kind), i)

\* worker.js:19-62: onmessage up to its first await, for the i-th message
OnMessage(d, i) ==
    LET q == NewReq(d)
        payload == d.payload
    IN  IF NotReady
        THEN Step([q EXCEPT !.pc = "done"],
                  <<Msg("ERROR", "Core not ready yet. Please wait.", i)>>)
        ELSE IF d.nullish
        THEN \* line 25 is outside the try: the exception leaves onmessage
             Step([q EXCEPT !.pc = "crashed",
                            !.err = TypeError("Cannot destructure property 'command'")],
                  << >>)
        ELSE IF d.command \in Commands /\ ~payload.present
        THEN Caught(q, TypeError("Cannot read properties of undefined"), i)
        ELSE CASE d.command = "CHECK_INTEGRITY_STREAM" ->
                    StartIntegrityStream(q, payload.file, payload.chunkSize)
               [] d.command \in {"GET_METADATA", "LIST_FILES", "GET_FILE_CONTENT"} ->
                    StartBufferRead(q, payload.file)
               [] d.command = "CHECK_CACHE" -> CheckCache(q, payload, i)
               [] OTHER ->
                    Step([q EXCEPT !.pc = "done"],
                         <<Msg("ERROR", UnknownCommand(d.command), i)>>)

\* a message event is dispatched to onmessage
Receive(d) ==
    /\ Idle
    /\ Len(reqs) < MaxRequests
    /\ LET s == OnMessage(d, Len(reqs) + 1)
       IN  /\ reqs' = Append(reqs, s.req)
           /\ out' = out \o s.msgs
    /\ UNCHANGED <<initState, isReady>>

\* ------------------------------------------------- handleIntegrityStream
\* a WebAssembly trap inside a call into the core
Trap == ErrorObj("RuntimeError", "unreachable")

\* faulty variant: the quotient is taken the wrong way round
ProgressInverted(loadedBytes, totalBytes) == [num |-> totalBytes * 100, den |-> loadedBytes]

\* worker.js:79: (loadedBytes / totalBytes) * 100, kept as the exact
\* fraction num / den; den = 0 is a division by zero (NaN or Infinity).
\* IEEE rounding of the quotient and of the product is monotone and keeps
\* 0 and 100 exact, so order and range are those of the fraction.
Progress(loadedBytes, totalBytes) == [num |-> loadedBytes * 100, den |-> totalBytes]

\* faulty variant: the byte counter is shared by all requests
NextLoadedShared(loadedBytes, value) == reqs[Len(reqs)].loadedBytes + Len(value)

\* faulty variant: the counter is assigned, not accumulated
NextLoadedAssigned(loadedBytes, value) == Len(value)

\* worker.js:77: loadedBytes += value.length
NextLoaded(loadedBytes, value) == loadedBytes + Len(value)

\* faulty variant: only the first chunkSize bytes of a chunk are hashed
FeedTruncated(q, value) ==
    LET head == SubSeq(value, 1, IF Len(value) < q.chunkSize THEN Len(value) ELSE q.chunkSize)
    IN  [q EXCEPT !.hasher.h = HashUpdate(@, head),
                  !.chunks = Append(@, head),
                  !.ops = Append(@, CoreCall("hasher.update"))]

\* worker.js:76: hasher.update(value)
Feed(q, value) ==
    [q EXCEPT !.hasher.h = HashUpdate(@, value),
              !.chunks = Append(@, value),
              !.ops = Append(@, CoreCall("hasher.update"))]

\* faulty variant: a last PROGRESS is posted after the result
DoneMessagesThenProgress(q, r) ==
    <<Msg("RESULT_INTEGRITY", q.hasher.h, r),
      Msg("PROGRESS", [task |-> "integrity_blake3", progress |-> [num |-> 100, den |-> 1]], r)>>

\* worker.js:86: what the handler posts once the digest is known
DoneMessages(q, r) == <<Msg("RESULT_INTEGRITY", q.hasher.h, r)>>

\* faulty variant: the consumed hasher is not marked
MarkConsumedMissing(hasherVar) == hasherVar

\* worker.js:84: hasher = null
MarkConsumed(hasherVar) == FALSE

\* faulty variant: the finally block frees nothing
FinallyBlockSkipped(q) == q

\* worker.js:88-92: the finally block.  free() on a hasher that finalize
\* has consumed fails fast, and that exception replaces the pending one.
FinallyBlock(q) ==
    IF ~q.hasherVar THEN q
    ELSE LET f == [q EXCEPT !.ops = Append(@, CoreCall("hasher.free"))]
         IN  IF q.hasher.status = "live"
             THEN [f EXCEPT !.hasher.status = "freed"]
             ELSE [f EXCEPT !.pc = "rejected",
                            !.err = CoreError("InvalidUsage"),
                            !.raised = "InvalidUsage"]

Resume(r, s) ==
    /\ reqs' = [reqs EXCEPT ![r] = s.req]
    /\ out' = out \o s.msgs
    /\ UNCHANGED <<initState, isReady>>

Remaining(q) == q.totalBytes - q.pos

\* worker.js:73: reader.read() rejected
ReadFails(r) ==
    /\ Idle
    /\ reqs[r].pc = "awaitRead"
    /\ Resume(r, Step(FinallyBlock([reqs[r] EXCEPT !.pc = "rejected", !.err = NotReadable]),
                      << >>))

\* worker.js:73-81: reader.read() resolved with a chunk of k bytes.  The
\* stream of a Blob delivers its bytes in order, in chunks of any size, and
\* reads a chunk only while bytes remain: an empty Blob's stream is done at
\* the first read.
ReadChunk(r, k) ==
    LET q == reqs[r]
        value == SubSeq(q.data.payload.file.bytes, q.pos + 1, q.pos + k)
        read == [q EXCEPT !.pos = @ + k,
                          !.emptyReads = IF k = 0 THEN @ + 1 ELSE @]
    IN  /\ Idle
        /\ q.pc = "awaitRead"
        /\ Remaining(q) > 0
        /\ k \in 0..Remaining(q)
        /\ k = 0 => q.emptyReads < MaxEmptyChunks
        /\ \/ LET u == [Feed(read, value) EXCEPT
                            !.loadedBytes = NextLoaded(@, value)]
              IN  Resume(r, Step(u, <<Msg("PROGRESS",
                                          [task |-> "integrity_blake3",
                                           progress |-> Progress(u.loadedBytes, u.totalBytes)],
                                          r)>>))
           \/ \* hasher.update threw
              Resume(r, Step(FinallyBlock([read EXCEPT
                                 !.ops = Append(@, CoreCall("hasher.update")),
                                 !.pc = "rejected",
                                 !.err = Trap]),
                             << >>))

\* worker.js:74, 83-92: reader.read() resolved with done
ReadDone(r) ==
    LET q == reqs[r]
        fin == [q EXCEPT !.ops = Append(@, CoreCall("hasher.finalize")),
                         !.hasher.status = "consumed"]
    IN  /\ Idle
        /\ q.pc = "awaitRead"
        /\ Remaining(q) = 0
        /\ \/ Resume(r, Step(FinallyBlock([fin EXCEPT !.hasherVar = MarkConsumed(@),
                                                      !.pc = "done"]),
                             DoneMessages(q, r)))
           \/ \* hasher.finalize threw
              Resume(r, Step(FinallyBlock([fin EXCEPT !.pc = "rejected", !.err = Trap]),
                             << >>))

\* ------------------------- handleMetadata, handleListFiles, handleGetFileContent
\* faulty variant: the handlers of GET_METADATA and LIST_FILES post each other's type
ResultTypeSwapped(command) ==
    CASE command = "GET_METADATA" -> "RESULT_FILES"
      [] command = "LIST_FILES" -> "RESULT_METADATA"
      [] command = "GET_FILE_CONTENT" -> "RESULT_FILE_CONTENT"

\* worker.js:98, 104, 114: the type of the message each handler posts
ResultType(command) ==
    CASE command = "GET_METADATA" -> "RESULT_METADATA"
      [] command = "LIST_FILES" -> "RESULT_FILES"
      [] command = "GET_FILE_CONTENT" -> "RESULT_FILE_CONTENT"

\* worker.js:97, 103, 110: the core function each handler calls
CoreFn(command) ==
    CASE command = "GET_METADATA" -> "get_metadata"
      [] command = "LIST_FILES" -> "list_files"
      [] command = "GET_FILE_CONTENT" -> "get_file_content"

\* worker.js:96, 102, 109: file.arrayBuffer() rejected
BufferFails(r) ==
    /\ Idle
    /\ reqs[r].pc = "awaitBuffer"
    /\ Resume(r, Rejected(reqs[r], NotReadable))

\* worker.js:95-120: file.arrayBuffer() resolved
BufferSettles(r) ==
    LET q == reqs[r]
        command == q.data.command
        bytes == q.data.payload.file.bytes
        targetPath == q.data.payload.path
        res == CASE command = "GET_METADATA" -> get_metadata(bytes)
                 [] command = "LIST_FILES" -> list_files(bytes)
                 [] command = "GET_FILE_CONTENT" -> get_file_content(bytes, targetPath)
        c == [q EXCEPT !.ops = Append(@, CoreCall(CoreFn(command)))]
        payload == IF command = "GET_FILE_CONTENT"
                   THEN [path |-> targetPath, data |-> res.val]
                   ELSE res.val
    IN  /\ Idle
        /\ q.pc = "awaitBuffer"
        /\ IF res.ok
           THEN Resume(r, Step([c EXCEPT !.pc = "done"],
                               <<Msg(ResultType(command), payload, r)>>))
           ELSE Resume(r, Rejected([c EXCEPT !.raised = res.kind], CoreError(res.kind)))

\* worker.js:59-61: the await in onmessage resumes with the handler's
\* rejection
CatchError(r) ==
    /\ reqs[r].pc = "rejected"
    /\ Resume(r, Step([reqs[r] EXCEPT !.pc = "done"],
                      <<Msg("ERROR", ErrText(reqs[r].err), r)>>))

Next ==
    \/ InitSucceeds
    \/ InitFails
    \/ \E d \in Requests : Receive(d)
    \/ \E r \in 1..Len(reqs) : ReadFails(r)
    \/ \E r \in 1..Len(reqs) : \E k \in 0..MaxFileLen : ReadChunk(r, k)
    \/ \E r \in 1..Len(reqs) : ReadDone(r)
    \/ \E r \in 1..Len(reqs) : BufferFails(r)
    \/ \E r \in 1..Len(reqs) : BufferSettles(r)
    \/ \E r \in 1..Len(reqs) : CatchError(r)

Spec == Init /\ [][Next]_vars

\* the worker once initialisation has succeeded and READY is posted
ReadyInit ==
    /\ initState = "ok"
    /\ isReady = TRUE
    /\ reqs = << >>
    /\ out = <<Msg("READY", "", 0)>>

\* the ready worker serving CHECK_INTEGRITY_STREAM requests only
StreamNext ==
    \/ \E d \in StreamRequests : Receive(d)
    \/ \E r \in 1..Len(reqs) : ReadFails(r)
    \/ \E r \in 1..Len(reqs) : \E k \in 0..MaxFileLen : ReadChunk(r, k)
    \/ \E r \in 1..Len(reqs) : ReadDone(r)
    \/ \E r \in 1..Len(reqs) : CatchError(r)

StreamSpec == ReadyInit /\ [][StreamNext]_vars

\* the ready worker serving CHECK_CACHE requests only
CacheNext == \E d \in CacheRequests : Receive(d)

CacheSpec == ReadyInit /\ [][CacheNext]_vars

\* ============================================================ properties
Posted == 1..Len(out)
Handled == 1..Len(reqs)

IsTerminal(m) == m.req > 0 /\ m.type \in TerminalTypes

\* the positions in out of the terminal responses to request r
TerminalsOf(r) == {i \in Posted : out[i].req = r /\ IsTerminal(out[i])}

ProgressOf(r) == {i \in Posted : out[i].req = r /\ out[i].type = "PROGRESS"}

Finished(r) == reqs[r].pc \in {"done", "crashed"}

\* C1: every message delivered to onmessage gets at most one terminal
\* response (RESULT_* or ERROR), whatever its command and payload, before
\* or after initialisation.
AtMostOneTerminal == \A r \in Handled : Cardinality(TerminalsOf(r)) <= 1

\* a finished streaming request answered by RESULT_INTEGRITY and another
\* finished request answered by ERROR
AtMostOneTerminalWitness ==
    \E r, s \in Handled :
        /\ Finished(r) /\ Finished(s)
        /\ \E i \in TerminalsOf(r) : out[i].type = "RESULT_INTEGRITY"
        /\ \E i \in TerminalsOf(s) : out[i].type = "ERROR"

\* C2: every message delivered to onmessage is answered: once its handler
\* has run to its end there is a terminal response for it.
EveryRequestAnswered == \A r \in Handled : Finished(r) => TerminalsOf(r) # {}

\* C3: the PROGRESS messages of a request come before its terminal
\* response, and only CHECK_INTEGRITY_STREAM requests cause PROGRESS.
ProgressBeforeTerminal ==
    /\ \A i, j \in Posted :
          (i < j /\ out[i].req = out[j].req /\ IsTerminal(out[i]))
              => out[j].type # "PROGRESS"
    /\ \A i \in Posted :
          out[i].type = "PROGRESS"
              => /\ out[i].req \in Handled
                 /\ reqs[out[i].req].data.command = "CHECK_INTEGRITY_STREAM"

\* a streaming request with PROGRESS then RESULT_INTEGRITY, and a streaming
\* request with PROGRESS then ERROR
ProgressBeforeTerminalWitness ==
    \E r, s \in Handled :
        /\ ProgressOf(r) # {} /\ ProgressOf(s) # {}
        /\ \E i \in TerminalsOf(r) : out[i].type = "RESULT_INTEGRITY"
        /\ \E i \in TerminalsOf(s) : out[i].type = "ERROR"

\* the order of two progress values as JavaScript compares them: a
\* division by zero (NaN) is in no order with anything
Leq(a, b) == a.den > 0 /\ b.den > 0 /\ a.num * b.den <= b.num * a.den

FileOf(r) == reqs[r].data.payload.file

RECURSIVE Concat(_)
Concat(chunks) == IF chunks = << >> THEN << >> ELSE Head(chunks) \o Concat(Tail(chunks))

\* the k-th PROGRESS message of request r, by position in out
RECURSIVE NthOf(_, _)
NthOf(S, k) ==
    LET m == CHOOSE i \in S : \A j \in S : i <= j
    IN  IF k = 1 THEN m ELSE NthOf(S \ {m}, k - 1)

\* C4: within one CHECK_INTEGRITY_STREAM operation the progress values
\* posted are monotonically non-decreasing, however the stream splits the
\* file into chunks.
ProgressMonotone ==
    \A i, j \in Posted :
        (i < j /\ out[i].req = out[j].req
           /\ out[i].type = "PROGRESS" /\ out[j].type = "PROGRESS")
            => Leq(out[i].payload.progress, out[j].payload.progress)

\* one operation posted a value, the same value again (a zero-length
\* chunk) and then a larger one
ProgressMonotoneWitness ==
    \E r \in Handled : \E i, j, k \in ProgressOf(r) :
        /\ i < j /\ j < k
        /\ out[i].payload.progress = out[j].payload.progress
        /\ ~Leq(out[k].payload.progress, out[j].payload.progress)

\* C5: every PROGRESS message carries bytesConsumed / totalBytes * 100 with
\* totalBytes = file.size; the value is a number in 0..100 (no division by
\* zero) and bytesConsumed never exceeds totalBytes.
ProgressValue ==
    \A r \in Handled :
        /\ reqs[r].loadedBytes <= reqs[r].totalBytes
        /\ Cardinality(ProgressOf(r)) <= Len(reqs[r].chunks)
        /\ \A k \in 1..Cardinality(ProgressOf(r)) :
              LET p == out[NthOf(ProgressOf(r), k)].payload.progress
                  bytesConsumed == Len(Concat(SubSeq(reqs[r].chunks, 1, k)))
                  size == Len(FileOf(r).bytes)
              IN  /\ p.den = size /\ p.den > 0
                  /\ p.num = bytesConsumed * 100
                  /\ 0 <= p.num /\ p.num <= 100 * p.den

\* an operation on an empty file has finished, and an operation on another
\* file has posted a value strictly between 0 and 100 and then 100
ProgressValueWitness ==
    \E r, s \in Handled :
        /\ FileOf(r).kind = "blob" /\ FileOf(r).bytes = << >>
        /\ reqs[r].data.command = "CHECK_INTEGRITY_STREAM"
        /\ \E i \in TerminalsOf(r) : out[i].type = "RESULT_INTEGRITY"
        /\ \E i, j \in ProgressOf(s) :
              /\ 0 < out[i].payload.progress.num
              /\ out[i].payload.progress.num < 100 * out[i].payload.progress.den
              /\ out[j].payload.progress.num = 100 * out[j].payload.progress.den

\* C6: the chunks passed to hasher.update, in call order, concatenate to
\* the bytes of the file read so far, and to the whole file when
\* RESULT_INTEGRITY is posted; the digest posted is the digest of the whole
\* file hashed in one call.
StreamingEquivalence ==
    \A r \in Handled :
        /\ reqs[r].pc = "awaitRead"
              => Concat(reqs[r].chunks) = SubSeq(FileOf(r).bytes, 1, reqs[r].pos)
        /\ \A i \in TerminalsOf(r) :
              out[i].type = "RESULT_INTEGRITY"
                  => /\ Concat(reqs[r].chunks) = FileOf(r).bytes
                     /\ out[i].payload = HashOneShot(FileOf(r).bytes)

\* RESULT_INTEGRITY for the empty file, and for a file of two different
\* bytes once read as one chunk and once as 1-byte chunks
StreamingEquivalenceWitnessSplit ==
    \E r, s \in Handled :
        /\ FileOf(r).bytes = FileOf(s).bytes
        /\ Len(FileOf(r).bytes) >= 2 /\ FileOf(r).bytes[1] # FileOf(r).bytes[2]
        /\ Len(reqs[r].chunks) = 1
        /\ \A k \in 1..Len(reqs[s].chunks) : Len(reqs[s].chunks[k]) = 1
        /\ \E i \in TerminalsOf(r) : out[i].type = "RESULT_INTEGRITY"
        /\ \E i \in TerminalsOf(s) : out[i].type = "RESULT_INTEGRITY"

\* the payload of the RESULT_CACHE_HIT answer to request r
HitOf(r) == out[CHOOSE i \in TerminalsOf(r) : TRUE].payload
HasHit(r) == \E i \in TerminalsOf(r) : out[i].type = "RESULT_CACHE_HIT"
QueryOf(r) == reqs[r].data.payload

\* the cache records path p with size s and modification time t
Recorded(cache, p, s, t) ==
    \E e \in DOMAIN cache.files :
        e = p /\ cache.files[e].size = s /\ cache.files[e].modifiedTime = t

\* C7: RESULT_CACHE_HIT is true exactly when the cache holds an entry for
\* the path with the observed size and modification time; a different size
\* or time gives false, a path never recorded gives false, and the entry's
\* digest plays no part.
CacheHitLaw ==
    /\ \A r \in Handled :
          HasHit(r) =>
              /\ HitOf(r) = Recorded(QueryOf(r).cacheObj, QueryOf(r).path,
                                     QueryOf(r).size.v, QueryOf(r).modified.v)
              /\ QueryOf(r).path \notin DOMAIN QueryOf(r).cacheObj.files => HitOf(r) = FALSE
    /\ \A r, s \in Handled :
          (HasHit(r) /\ HasHit(s)) =>
              /\ ( /\ QueryOf(r).cacheObj = QueryOf(s).cacheObj
                   /\ QueryOf(r).path = QueryOf(s).path
                   /\ \/ QueryOf(r).size # QueryOf(s).size
                      \/ QueryOf(r).modified # QueryOf(s).modified )
                    => ~(HitOf(r) /\ HitOf(s))
              /\ ( /\ [QueryOf(r) EXCEPT !.cacheObj = NoCache]
                        = [QueryOf(s) EXCEPT !.cacheObj = NoCache]
                   /\ DOMAIN QueryOf(r).cacheObj.files = DOMAIN QueryOf(s).cacheObj.files
                   /\ \A e \in DOMAIN QueryOf(r).cacheObj.files :
                        /\ QueryOf(r).cacheObj.files[e].size = QueryOf(s).cacheObj.files[e].size
                        /\ QueryOf(r).cacheObj.files[e].modifiedTime
                             = QueryOf(s).cacheObj.files[e].modifiedTime )
                    => HitOf(r) = HitOf(s)

\* a hit, and a miss on the same cache and path with another size
CacheHitLawWitness ==
    \E r, s \in Handled :
        /\ HasHit(r) /\ HasHit(s)
        /\ HitOf(r) = TRUE /\ HitOf(s) = FALSE
        /\ QueryOf(r).cacheObj = QueryOf(s).cacheObj
        /\ QueryOf(r).path = QueryOf(s).path
        /\ QueryOf(r).size # QueryOf(s).size
        /\ QueryOf(r).modified = QueryOf(s).modified

\* the RESULT_* type that belongs to a command
Expected(command) ==
    CASE command = "CHECK_INTEGRITY_STREAM" -> "RESULT_INTEGRITY"
      [] command = "GET_METADATA" -> "RESULT_METADATA"
      [] command = "LIST_FILES" -> "RESULT_FILES"
      [] command = "CHECK_CACHE" -> "RESULT_CACHE_HIT"
      [] command = "GET_FILE_CONTENT" -> "RESULT_FILE_CONTENT"
      [] OTHER -> "ERROR"

\* C8: a terminal response is the RESULT_* of its request's command or an
\* ERROR; RESULT_FILE_CONTENT carries the requested path; every RESULT_*
\* answers a delivered request of the matching command that had no answer
\* yet.
ResponseMatchesCommand ==
    \A i \in Posted :
        out[i].type \in TerminalTypes \ {"ERROR"}
            => /\ out[i].req \in Handled
               /\ ~reqs[out[i].req].data.nullish
               /\ out[i].type = Expected(reqs[out[i].req].data.command)
               /\ out[i].type = "RESULT_FILE_CONTENT"
                    => out[i].payload.path = reqs[out[i].req].data.payload.path
               /\ \A j \in 1..(i - 1) : ~(out[j].req = out[i].req /\ IsTerminal(out[j]))

\* a GET_FILE_CONTENT request answered with its path, and a request of
\* another command answered by its own RESULT_*
ResponseMatchesCommandWitness ==
    \E i, j \in Posted :
        /\ out[i].type = "RESULT_FILE_CONTENT"
        /\ out[j].type \in {"RESULT_METADATA", "RESULT_FILES"}

\* C9: no core function is invoked before initialisation has succeeded: a
\* message delivered while the worker is not ready is answered with ERROR
\* and calls nothing, and the worker is ready only after a successful
\* initialisation.
NoCoreBeforeInit ==
    /\ isReady => initState = "ok"
    /\ \A r \in Handled :
          /\ \A k \in 1..Len(reqs[r].ops) :
                reqs[r].ops[k].ready /\ reqs[r].ops[k].init = "ok"
          /\ ~reqs[r].ready
                => /\ reqs[r].ops = << >>
                   /\ \A i \in Posted : out[i].req = r => out[i].type = "ERROR"
                   /\ TerminalsOf(r) # {}

\* a message delivered before READY was refused, and a later one reached
\* the core
NoCoreBeforeInitWitness ==
    \E r, s \in Handled :
        /\ ~reqs[r].ready /\ TerminalsOf(r) # {}
        /\ reqs[s].ops # << >>

\* C10: a failure raised by the core is answered with an ERROR and no
\* RESULT_*, and failures of two different kinds get different ERROR
\* payloads.
FailuresDistinguishable ==
    /\ \A r \in Handled :
          (reqs[r].raised # "" /\ reqs[r].pc = "done")
              => /\ TerminalsOf(r) # {}
                 /\ \A i \in TerminalsOf(r) : out[i].type = "ERROR"
    /\ \A r, s \in Handled :
          ( /\ reqs[r].raised # "" /\ reqs[s].raised # ""
            /\ reqs[r].raised # reqs[s].raised )
              => \A i \in TerminalsOf(r), j \in TerminalsOf(s) :
                     out[i].payload # out[j].payload

\* two requests failed in the core with different kinds and both were
\* answered
FailuresDistinguishableWitness ==
    \E r, s \in Handled :
        /\ reqs[r].raised \in CoreKinds /\ reqs[s].raised \in CoreKinds
        /\ reqs[r].raised # reqs[s].raised
        /\ TerminalsOf(r) # {} /\ TerminalsOf(s) # {}

\* a message the protocol defines: a known command with the payload its
\* handler reads
WellFormed(r) ==
    LET d == reqs[r].data
    IN  /\ ~d.nullish /\ d.command \in Commands /\ d.payload.present
        /\ IF d.command = "CHECK_CACHE"
           THEN /\ d.payload.cacheObj.defined
                /\ d.payload.size.t = "number" /\ d.payload.modified.t = "number"
           ELSE d.payload.file.kind = "blob"

AnsweredError(r) == \E i \in TerminalsOf(r) : out[i].type = "ERROR"

\* C11: no failure is fatal to the worker: a worker that was ready when a
\* message was delivered is ready ever after, and once a request has been
\* answered with ERROR every later well-formed request is still dispatched
\* and answered by its own RESULT_*, or by an ERROR for a failure of its own.
ErrorNotFatal ==
    /\ (\E r \in Handled : reqs[r].ready) => isReady
    /\ \A r, s \in Handled :
          (r < s /\ reqs[r].ready /\ AnsweredError(r))
              => /\ reqs[s].ready
                 /\ (WellFormed(s) /\ Finished(s))
                      => /\ TerminalsOf(s) # {}
                         /\ \A i \in TerminalsOf(s) :
                               IF reqs[s].err = NoErr
                               THEN out[i].type = Expected(reqs[s].data.command)
                               ELSE /\ out[i].type = "ERROR"
                                    /\ out[i].payload = ErrText(reqs[s].err)

\* a request failed in the core and was answered with ERROR, and a request
\* delivered after it was answered with its RESULT_*
ErrorNotFatalWitness ==
    \E r, s \in Handled :
        /\ r < s /\ reqs[r].ready /\ reqs[r].raised \in CoreKinds
        /\ \E i \in TerminalsOf(r), j \in TerminalsOf(s) :
              /\ i < j
              /\ out[i].type = "ERROR"
              /\ out[j].type \in TerminalTypes \ {"ERROR"}

\* request r reads the header of a container: GET_METADATA or LIST_FILES
\* on a Blob whose buffer was read and handed to the core
ReadsHeader(r) ==
    /\ reqs[r].data.command \in {"GET_METADATA", "LIST_FILES"}
    /\ reqs[r].ops # << >>
    /\ FileOf(r).bytes # << >>

\* C12: a container declaring a format version outside {1, 2} (99) never
\* yields RESULT_METADATA or RESULT_FILES: it fails with
\* UnsupportedFormatVersion, which the requester can tell from
\* CorruptContainer; containers of version 1 and of version 2 are read.
VersionGating ==
    \A r \in Handled :
        ReadsHeader(r) =>
            IF FileOf(r).bytes[1] \in {1, 2}
            THEN /\ reqs[r].raised # "UnsupportedFormatVersion"
                 /\ (reqs[r].data.command = "GET_METADATA" /\ Finished(r))
                      => \E i \in TerminalsOf(r) :
                            /\ out[i].type = "RESULT_METADATA"
                            /\ out[i].payload.format_version = FileOf(r).bytes[1]
            ELSE /\ reqs[r].raised = "UnsupportedFormatVersion"
                 /\ Finished(r) => TerminalsOf(r) # {}
                 /\ \A i \in TerminalsOf(r) :
                       /\ out[i].type = "ERROR"
                       /\ out[i].payload = "UnsupportedFormatVersion"
                       /\ out[i].payload # "CorruptContainer"

\* GET_METADATA and LIST_FILES on a version 99 container were both answered
\* with ERROR
VersionGatingWitness ==
    \E r, s \in Handled :
        /\ ReadsHeader(r) /\ ReadsHeader(s)
        /\ reqs[r].data.command = "GET_METADATA" /\ reqs[s].data.command = "LIST_FILES"
        /\ FileOf(r).bytes[1] = 99 /\ FileOf(s).bytes[1] = 99
        /\ AnsweredError(r) /\ AnsweredError(s)

\* the operations invoked on the hasher of request r, in call order
HasherOps(r) ==
    SelectSeq(reqs[r].ops,
              LAMBDA c : c.fn \in {"hasher.update", "hasher.finalize", "hasher.free"})

Count(ops, fn) == Cardinality({k \in 1..Len(ops) : ops[k].fn = fn})

\* the handler of request r has returned or thrown
HandlerEnded(r) == reqs[r].pc \in {"rejected", "done", "crashed"}

\* C13: once finalize has been called on a hasher nothing more is invoked
\* on it, and a hasher that was created is released exactly once, by
\* finalize or by free, when its handler has ended.
HasherReleasedOnce ==
    \A r \in Handled :
        /\ \A j, k \in 1..Len(HasherOps(r)) :
              (j < k) => HasherOps(r)[j].fn # "hasher.finalize"
        /\ (HandlerEnded(r) /\ Count(reqs[r].ops, "VeghStreamingHasher") = 1)
              => Count(reqs[r].ops, "hasher.finalize") + Count(reqs[r].ops, "hasher.free") = 1

\* C14: RESULT_INTEGRITY is posted only when the stream is done and every
\* chunk it delivered went to update; when reader.read or hasher.update
\* fails part-way, finalize is not called, no RESULT_INTEGRITY is posted,
\* the hasher is freed and the request is answered with ERROR.
FailedPartWay(r) ==
    /\ reqs[r].data.command = "CHECK_INTEGRITY_STREAM"
    /\ \/ reqs[r].err = NotReadable
       \/ Count(reqs[r].ops, "hasher.update") > Len(reqs[r].chunks)

NoPartialDigest ==
    \A r \in Handled :
        /\ \A i \in TerminalsOf(r) :
              out[i].type = "RESULT_INTEGRITY"
                  => /\ reqs[r].pos = Len(FileOf(r).bytes)
                     /\ Len(Concat(reqs[r].chunks)) = reqs[r].pos
                     /\ Count(reqs[r].ops, "hasher.update") = Len(reqs[r].chunks)
                     /\ Count(reqs[r].ops, "hasher.finalize") = 1
        /\ FailedPartWay(r)
              => /\ Count(reqs[r].ops, "hasher.finalize") = 0
                 /\ \A i \in Posted : out[i].req = r => out[i].type # "RESULT_INTEGRITY"
                 /\ reqs[r].hasher.status = "freed"
                 /\ Count(reqs[r].ops, "hasher.free") = 1
                 /\ Finished(r) => AnsweredError(r)

\* one request was abandoned when a read failed after a chunk, another
\* when update failed after a chunk, and both were answered with ERROR
NoPartialDigestWitness ==
    \E r, s \in Handled :
        /\ FailedPartWay(r) /\ FailedPartWay(s)
        /\ reqs[r].err = NotReadable /\ reqs[s].err = Trap
        /\ reqs[r].chunks # << >> /\ reqs[s].chunks # << >>
        /\ AnsweredError(r) /\ AnsweredError(s)

\* C15: every chunk passed to hasher.update is at most chunkSize long.
ChunksBounded ==
    \A r \in Handled :
        \A k \in 1..Len(reqs[r].chunks) : Len(reqs[r].chunks[k]) <= reqs[r].chunkSize

\* C16: requests in flight at once do not share a hasher, a reader or a
\* byte counter: the hasher of a request has absorbed exactly the chunks
\* read from that request's own file, its loadedBytes counts exactly those
\* bytes, and its progress values and digest are those of its own file.
StreamsIsolated ==
    \A r \in Handled :
        LET own == Concat(reqs[r].chunks)
        IN  /\ own = SubSeq(FileOf(r).bytes, 1, Len(own))
            /\ reqs[r].loadedBytes = Len(own)
            /\ reqs[r].hasher.status # "none" => reqs[r].hasher.h = HashOneShot(own)
            /\ \A i \in ProgressOf(r) :
                  /\ out[i].payload.progress.den = Len(FileOf(r).bytes)
                  /\ out[i].payload.progress.num <= 100 * Len(own)
            /\ \A i \in TerminalsOf(r) :
                  out[i].type = "RESULT_INTEGRITY"
                      => out[i].payload = HashOneShot(FileOf(r).bytes)

\* two requests on different files whose reads interleaved, both answered
\* with RESULT_INTEGRITY
StreamsIsolatedWitness ==
    \E r, s \in Handled :
        /\ r # s /\ FileOf(r).bytes # FileOf(s).bytes
        /\ \E i, k \in ProgressOf(r), j \in ProgressOf(s) : i < j /\ j < k
        /\ \E i \in TerminalsOf(r), j \in TerminalsOf(s) :
              /\ out[i].type = "RESULT_INTEGRITY" /\ out[j].type = "RESULT_INTEGRITY"
              /\ out[i].payload # out[j].payload

\* C17 as stated: terminal responses are posted in the order in which
\* their requests were delivered.
ResponsesInDeliveryOrder ==
    \A r, s \in Handled :
        r < s => \A i \in TerminalsOf(r), j \in TerminalsOf(s) : i < j

\* the worker answers request r within the onmessage call itself, before
\* any await: before READY, an unknown command, a known command without
\* payload, CHECK_CACHE
AnsweredAtOnce(r) ==
    \/ ~reqs[r].ready
    \/ ( /\ ~reqs[r].data.nullish
         /\ \/ reqs[r].data.command \notin Commands
            \/ ~reqs[r].data.payload.present
            \/ reqs[r].data.command = "CHECK_CACHE" )

\* C17, amended: the response to a request that is answered within its
\* onmessage call precedes the response to every request delivered later;
\* a request suspended at an await may be answered after a later request.
ImmediateResponsesInOrder ==
    \A r, s \in Handled :
        (r < s /\ AnsweredAtOnce(r))
            => /\ TerminalsOf(r) # {}
               /\ \A i \in TerminalsOf(r), j \in TerminalsOf(s) : i < j

\* a CHECK_CACHE request and a later request, both answered
ImmediateResponsesInOrderWitness ==
    \E r, s \in Handled :
        /\ r < s /\ reqs[r].ready /\ reqs[r].data.command = "CHECK_CACHE"
        /\ reqs[s].data.command = "GET_METADATA"
        /\ TerminalsOf(r) # {} /\ TerminalsOf(s) # {}

\* ------------------------------------------------------------------ C18
\* the request carries a command that is none of the five known ones
UnknownRequest(r) ==
    ~reqs[r].data.nullish /\ reqs[r].data.command \notin Commands

\* handling request r called no core function, made no hasher and posted
\* nothing but one ERROR
RejectedUntouched(r) ==
    /\ reqs[r].pc = "done"
    /\ reqs[r].ops = << >>
    /\ reqs[r].hasher = NoHasher
    /\ \A i \in Posted : out[i].req = r => out[i].type = "ERROR"
    /\ Cardinality(TerminalsOf(r)) = 1

\* C18 as stated: every request with an unknown command, whenever it is
\* delivered, is answered with one ERROR that names the command, with no
\* core call, no hasher and no other message.
UnknownCommandNamed ==
    \A r \in Handled :
        UnknownRequest(r)
            => /\ RejectedUntouched(r)
               /\ \A i \in TerminalsOf(r) :
                      out[i].payload = "Unknown command: " \o reqs[r].data.command

\* the message a request with an unknown command is answered with
UnknownAnswer(r) ==
    IF reqs[r].ready
    THEN "Unknown command: " \o reqs[r].data.command
    ELSE "Core not ready yet. Please wait."

\* the step that delivers a request with an unknown command leaves isReady
\* as it was
UnknownKeepsReady ==
    (Len(reqs') = Len(reqs) + 1 /\ ~reqs'[Len(reqs')].data.nullish
        /\ reqs'[Len(reqs')].data.command \notin Commands)
        => (isReady' = isReady /\ initState' = initState)

\* C18 (amended): a request with an unknown command is answered with exactly
\* one ERROR, which names the command when the request is delivered after
\* READY and is the not-ready refusal when it is delivered before; handling
\* it calls no core function, makes no hasher, posts no PROGRESS or RESULT_*
\* message and leaves isReady unchanged.
UnknownCommandRejected ==
    /\ [](\A r \in Handled :
            UnknownRequest(r)
                => /\ RejectedUntouched(r)
                   /\ \A i \in TerminalsOf(r) : out[i].payload = UnknownAnswer(r))
    /\ [][UnknownKeepsReady]_vars

\* an unknown command delivered after READY was answered by name, and
\* another delivered before READY was refused
UnknownCommandRejectedWitness ==
    \E r, s \in Handled :
        /\ UnknownRequest(r) /\ reqs[r].ready
        /\ UnknownRequest(s) /\ ~reqs[s].ready
        /\ isReady
        /\ \E i \in TerminalsOf(r) :
              out[i].payload = "Unknown command: " \o reqs[r].data.command
        /\ TerminalsOf(s) # {}

\* ------------------------------------------------------------------ C19
\* the positions of the READY messages and of the ERROR of the init block
ReadyAt == {i \in Posted : out[i].type = "READY"}

InitErrorAt == {i \in Posted : out[i].type = "ERROR" /\ out[i].req = 0}

\* C19: once init has settled the worker has posted exactly one of READY
\* (it succeeded) and the initialisation ERROR (it failed), and before that
\* neither; READY is posted at most once; isReady is true only after a
\* successful init; every PROGRESS and RESULT_* message comes after READY.
InitProtocol ==
    /\ Cardinality(ReadyAt) + Cardinality(InitErrorAt) <= 1
    /\ initState = "pending" => ReadyAt = {} /\ InitErrorAt = {}
    /\ initState = "ok" => Cardinality(ReadyAt) = 1 /\ InitErrorAt = {}
    /\ initState = "failed" => ReadyAt = {} /\ Cardinality(InitErrorAt) = 1
    /\ isReady <=> initState = "ok"
    /\ \A i \in Posted :
          out[i].type \notin {"READY", "ERROR"} => \E j \in ReadyAt : j < i

\* init failed and said so, and a request delivered afterwards was refused;
\* nothing but ERROR messages has been posted
InitProtocolWitness ==
    /\ initState = "failed"
    /\ \E e \in InitErrorAt : \E r \in Handled : \E i \in TerminalsOf(r) : e < i
    /\ \A i \in Posted : out[i].type = "ERROR"

====
